---- MODULE Spec2Model ----
(***************************************************************************)
(* partiell.partial: partial argument application with '...' (Ellipsis).   *)
(* The heap holds the partial instances created so far; every action is    *)
(* one public operation of the class, and `last` records that operation    *)
(* with its inputs and its outcome.                                        *)
(***************************************************************************)
EXTENDS Integers, Sequences, FiniteSets, TLC

VARIABLES heap, last, chain

vars == <<heap, last, chain>>

\* ---------------------------------------------------------------- bounds
\* how many instances the caller keeps a reference to at a time
MaxInst == 1

\* ---------------------------------------------------------------- values
\* Positional argument values are small positive integers; 0 is Ellipsis.
Ellipsis == 0
Vals == {1, 2}
Keys == {"z"}

\* Objects that can be passed as `func`.
PlainFn == [k |-> "f", v |-> 0]
AttrFn == [k |-> "fa", v |-> 0]
NotCallable == [k |-> "nc", v |-> 0]
Ref(i) == [k |-> "partial", v |-> i]

\* Sequence-like and mapping-like values carry their Python type: a tuple, a
\* subclass of tuple, a list; a dict, a subclass of dict, another Mapping;
\* None; or something else entirely (an int).
Tuple(s) == [t |-> "tuple", s |-> s]
TupleSub(s) == [t |-> "tuplesub", s |-> s]
List(s) == [t |-> "list", s |-> s]
IntSeq == [t |-> "int", s |-> <<>>]
Dict(m) == [t |-> "dict", m |-> m]
DictSub(m) == [t |-> "dictsub", m |-> m]
Mapping(m) == [t |-> "mapping", m |-> m]
IntMap == [t |-> "int", m |-> {}]
None == [t |-> "None", m |-> {}]

\* isinstance(x, tuple), isinstance(x, dict)
IsTuple(x) == x.t \in {"tuple", "tuplesub"}
IsDict(x) == x.t \in {"dict", "dictsub"}

NoValue == [k |-> "none", v |-> 0]
IntValue(n) == [k |-> "int", v |-> n]
NoInst == [func |-> NotCallable, largs |-> Tuple(<<>>), rargs |-> Tuple(<<>>),
           keywords |-> Dict({}), ns |-> Dict({})]

\* callable(func)
Callable(o) == o.k # "nc"

\* hasattr(func, "func")
HasAttrFunc(o) == o.k \in {"partial", "fa"}

\* whether func.largs, func.rargs, func.keywords exist
HasPartialFields(o) == o.k = "partial"

\* {**a, **b} on mappings held as sets of <<key, value>> pairs
MergeKw(a, b) == {p \in a : \A q \in b : q[1] # p[1]} \cup b

\* the indexes at which args holds Ellipsis
EllipsisAt(args) == {i \in 1..Len(args) : args[i] = Ellipsis}

\* a scan that never raises at a second Ellipsis
TooManyEllipsis_Never(args) == FALSE

\* the loop of __new__ keeps the first index and raises at a second one
TooManyEllipsis(args) == Cardinality(EllipsisAt(args)) > 1

FirstEllipsis(args) == CHOOSE i \in EllipsisAt(args) : \A j \in EllipsisAt(args) : i <= j

SplitArgs(args) ==
    IF EllipsisAt(args) = {}
    THEN [largs |-> args, rargs |-> <<>>]
    ELSE [largs |-> SubSeq(args, 1, FirstEllipsis(args) - 1),
          rargs |-> SubSeq(args, FirstEllipsis(args) + 1, Len(args))]

\* a flattening that puts the new arguments outside the ones q holds
Flatten_Swapped(h, func, sp, keywords) ==
    LET q == h[func.v]
    IN [func |-> q.func,
        largs |-> Tuple(sp.largs \o q.largs.s),
        rargs |-> Tuple(q.rargs.s \o sp.rargs),
        keywords |-> Dict(MergeKw(q.keywords.m, keywords)),
        ns |-> Dict({})]

\* the branch `if hasattr(func, "func")` of __new__
Flatten(h, func, sp, keywords) ==
    LET q == h[func.v]
    IN [func |-> q.func,
        largs |-> Tuple(q.largs.s \o sp.largs),
        rargs |-> Tuple(sp.rargs \o q.rargs.s),
        keywords |-> Dict(MergeKw(q.keywords.m, keywords)),
        ns |-> Dict({})]

\* the instance built by lines 104-110 when func is not flattened
Fresh(func, sp, keywords) ==
    [func |-> func, largs |-> Tuple(sp.largs), rargs |-> Tuple(sp.rargs),
     keywords |-> Dict(keywords), ns |-> Dict({})]

\* a constructor that fills in the instance it was called through
Alloc_InPlace(h, inst) == IF h = <<>> THEN <<inst>> ELSE [h EXCEPT ![Len(h)] = inst]

\* super().__new__(cls): the new object is a new cell of the heap
Alloc(h, inst) == Append(h, inst)

\* partial.__new__(cls, func, *args, **keywords)
partial_new(h, func, args, keywords) ==
    IF ~Callable(func) THEN [exc |-> "TypeError", inst |-> NoInst]
    ELSE IF TooManyEllipsis(args) THEN [exc |-> "TypeError", inst |-> NoInst]
    ELSE IF HasAttrFunc(func)
    THEN IF ~HasPartialFields(func)
         THEN [exc |-> "AttributeError", inst |-> NoInst]
         ELSE [exc |-> "none", inst |-> Flatten(h, func, SplitArgs(args), keywords)]
    ELSE [exc |-> "none", inst |-> Fresh(func, SplitArgs(args), keywords)]

\* ------------------------------------------------------- the wrapped f
\* def f(x, y, z): return x * 100 + y * 10 + z
Params == <<"x", "y", "z">>

ParamIndex(name) == CHOOSE i \in 1..Len(Params) : Params[i] = name

KwNames(kw) == {p[1] : p \in kw}

KwValue(kw, name) == (CHOOSE p \in kw : p[1] = name)[2]

BindOk(args, kw) ==
    /\ Len(args) <= Len(Params)
    /\ \A n \in KwNames(kw) :
          /\ \E i \in 1..Len(Params) : Params[i] = n
          /\ ParamIndex(n) > Len(args)
    /\ \A i \in 1..Len(Params) : i <= Len(args) \/ Params[i] \in KwNames(kw)

Bound(args, kw, i) == IF i <= Len(args) THEN args[i] ELSE KwValue(kw, Params[i])

f(args, kw) ==
    IF ~BindOk(args, kw) THEN [exc |-> "TypeError", res |-> NoValue]
    ELSE IF \E i \in 1..Len(Params) : Bound(args, kw, i) = Ellipsis
    THEN [exc |-> "TypeError", res |-> NoValue]
    ELSE [exc |-> "none",
          res |-> IntValue(Bound(args, kw, 1) * 100 + Bound(args, kw, 2) * 10
                           + Bound(args, kw, 3))]

\* ---------------------------------------------------------- __call__
\* a final call that passes the new arguments first
FinalArgs_ArgsFirst(self, args) == args \o self.largs.s \o self.rargs.s

\* (*self.largs, *args, *self.rargs)
FinalArgs(self, args) == self.largs.s \o args \o self.rargs.s

\* {**self.keywords, **keywords}
FinalKeywords(self, keywords) == MergeKw(self.keywords.m, keywords)

\* partial.__call__(self, *args, **keywords); depth counts the nested frames
\* entered when self.func is itself a partial, and a cycle of such references
\* ends in the interpreter's RecursionError.
RECURSIVE partial_call(_, _, _, _, _)
partial_call(h, p, args, keywords, depth) ==
    IF depth > Len(h)
    THEN [heap |-> h, exc |-> "RecursionError", res |-> NoValue, log |-> <<>>]
    ELSE IF EllipsisAt(args) # {}
    THEN LET n == partial_new(h, Ref(p), args, keywords)
         IN IF n.exc # "none"
            THEN [heap |-> h, exc |-> n.exc, res |-> NoValue, log |-> <<>>]
            ELSE [heap |-> Alloc(h, n.inst), exc |-> "none",
                  res |-> Ref(Len(h) + 1), log |-> <<>>]
    ELSE LET self == h[p]
             entry == [depth |-> depth, callee |-> self.func,
                       args |-> FinalArgs(self, args),
                       kw |-> FinalKeywords(self, keywords)]
         IN IF self.func.k = "partial"
            THEN LET r == partial_call(h, self.func.v, entry.args, entry.kw, depth + 1)
                 IN [r EXCEPT !.log = <<entry>> \o r.log]
            ELSE LET r == f(entry.args, entry.kw)
                 IN [heap |-> h, exc |-> r.exc, res |-> r.res, log |-> <<entry>>]

\* ------------------------------------------------- __reduce__, __setstate__
\* partial.__reduce__(self): (type(self), (self.func,), state)
partial_reduce(self) ==
    [type |-> "partial",
     args |-> <<self.func>>,
     state |-> [t |-> "tuple", n |-> 5, func |-> self.func,
                largs |-> self.largs, rargs |-> self.rargs,
                kwds |-> IF self.keywords.m = {} THEN None ELSE self.keywords,
                namespace |-> IF self.ns.m = {} THEN None ELSE self.ns]]

\* checks that let any largs and rargs through
StateRejected_NoArgsCheck(state) ==
    \/ state.t # "tuple"
    \/ state.n # 5
    \/ ~Callable(state.func)
    \/ (state.kwds.t # "None" /\ ~IsDict(state.kwds))
    \/ (state.namespace.t # "None" /\ ~IsDict(state.namespace))

\* the checks of __setstate__ that raise TypeError
StateRejected(state) ==
    \/ state.t # "tuple"
    \/ state.n # 5
    \/ ~Callable(state.func)
    \/ ~IsTuple(state.largs)
    \/ ~IsTuple(state.rargs)
    \/ (state.kwds.t # "None" /\ ~IsDict(state.kwds))
    \/ (state.namespace.t # "None" /\ ~IsDict(state.namespace))

\* assignments without the coercions to tuple and dict
Restored_NoCoercion(state) ==
    [func |-> state.func,
     largs |-> state.largs,
     rargs |-> state.rargs,
     keywords |-> IF state.kwds.t = "None" THEN Dict({}) ELSE state.kwds,
     ns |-> IF state.namespace.t = "None" THEN Dict({}) ELSE state.namespace]

\* the coercions of __setstate__ and the five assignments that end it
Restored(state) ==
    [func |-> state.func,
     largs |-> Tuple(state.largs.s),
     rargs |-> Tuple(state.rargs.s),
     keywords |-> IF state.kwds.t = "None" THEN Dict({})
                  ELSE IF state.kwds.t # "dict" THEN Dict(state.kwds.m)
                  ELSE state.kwds,
     ns |-> IF state.namespace.t = "None" THEN Dict({}) ELSE state.namespace]

\* partial.__setstate__(self, state)
partial_setstate(self, state) ==
    IF StateRejected(state)
    THEN [exc |-> "TypeError", inst |-> self]
    ELSE [exc |-> "none", inst |-> Restored(state)]

\* ------------------------------------------------------------- inputs
\* argument lists of a call: none, a value, Ellipsis first, last, alone,
\* between values, and twice
ArgLists ==
    {<<>>, <<1>>, <<2>>,
     <<Ellipsis>>, <<1, Ellipsis>>, <<2, Ellipsis>>, <<Ellipsis, 1>>, <<Ellipsis, 2>>,
     <<1, Ellipsis, 2>>, <<Ellipsis, Ellipsis>>}

\* keyword arguments of a call
KwSets == {{}} \cup {{<<k, v>>} : k \in Keys, v \in Vals}

\* what a caller can pass as func: a plain function, a callable that carries
\* an attribute named func, something not callable, an existing partial
Funcs == {PlainFn, AttrFn, NotCallable} \cup {Ref(i) : i \in 1..Len(heap)}

BaseState == [t |-> "tuple", n |-> 5, func |-> PlainFn, largs |-> Tuple(<<1>>),
              rargs |-> Tuple(<<2>>), kwds |-> None, namespace |-> None]

\* what a caller can pass to __setstate__: the state exported by an existing
\* instance, or a state that differs from a well-formed one in one place
StateInputs ==
    {partial_reduce(heap[i]).state : i \in 1..Len(heap)}
    \cup {[BaseState EXCEPT !.func = x] : x \in Funcs \ {PlainFn}}
    \cup {[BaseState EXCEPT !.largs = x] : x \in {TupleSub(<<1, 2>>), List(<<1>>), IntSeq}}
    \cup {[BaseState EXCEPT !.rargs = x] : x \in {List(<<2>>)}}
    \cup {[BaseState EXCEPT !.kwds = x] :
             x \in {DictSub({<<"z", 1>>}), Mapping({<<"z", 1>>}), IntMap}}
    \cup {[BaseState EXCEPT !.namespace = x] : x \in {Dict({<<"n", 1>>}), IntMap}}
    \cup {[BaseState EXCEPT !.n = x] : x \in {4, 6}}
    \cup {[BaseState EXCEPT !.t = "list"]}

NoState == [t |-> "tuple", n |-> 0, func |-> NotCallable, largs |-> Tuple(<<>>),
            rargs |-> Tuple(<<>>), kwds |-> None, namespace |-> None]

NoOp == [op |-> "idle", self |-> 0, func |-> NotCallable, args |-> <<>>, kw |-> {},
         state |-> NoState, exc |-> "none", res |-> NoValue, log |-> <<>>]

NoChain == [pc |-> "off", f |-> NotCallable, a |-> 0, b |-> 0, c |-> 0,
            obj |-> 0, exc |-> "none", res |-> <<>>, calls |-> <<>>]

\* ------------------------------------------------------------ actions
Init ==
    /\ heap = <<>>
    /\ last = NoOp
    /\ chain = NoChain

Idle == last.op = "idle"

\* partial(func, *args, **keywords)
New(func, args, kw) ==
    /\ Idle
    /\ LET n == partial_new(heap, func, args, kw)
       IN /\ heap' = IF n.exc = "none" THEN Alloc(heap, n.inst) ELSE heap
          /\ last' = [NoOp EXCEPT !.op = "new", !.func = func, !.args = args, !.kw = kw,
                                  !.exc = n.exc,
                                  !.res = IF n.exc = "none" THEN Ref(Len(heap) + 1)
                                          ELSE NoValue]
    /\ UNCHANGED chain

\* p(*args, **keywords)
Call(p, args, kw) ==
    /\ Idle
    /\ LET r == partial_call(heap, p, args, kw, 0)
       IN /\ heap' = r.heap
          /\ last' = [NoOp EXCEPT !.op = "call", !.self = p, !.args = args, !.kw = kw,
                                  !.exc = r.exc, !.res = r.res, !.log = r.log]
    /\ UNCHANGED chain

\* p.__reduce__()
Reduce(p) ==
    /\ Idle
    /\ last' = [NoOp EXCEPT !.op = "reduce", !.self = p, !.func = heap[p].func,
                            !.state = partial_reduce(heap[p]).state]
    /\ UNCHANGED <<heap, chain>>

\* p.__setstate__(state)
SetState(p, state) ==
    /\ Idle
    /\ LET r == partial_setstate(heap[p], state)
       IN /\ heap' = [heap EXCEPT ![p] = r.inst]
          /\ last' = [NoOp EXCEPT !.op = "setstate", !.self = p, !.state = state,
                                  !.exc = r.exc]
    /\ UNCHANGED chain

\* copy.copy(p), pickle.loads(pickle.dumps(p)): the recipe of __reduce__ is
\* followed, cls(*args) builds the object and __setstate__(state) fills it
Copy(p) ==
    /\ Idle
    /\ LET r == partial_reduce(heap[p])
           n == partial_new(heap, r.args[1], <<>>, {})
           s == partial_setstate(n.inst, r.state)
           exc == IF n.exc # "none" THEN n.exc ELSE s.exc
       IN /\ heap' = IF exc = "none" THEN Alloc(heap, s.inst) ELSE heap
          /\ last' = [NoOp EXCEPT !.op = "copy", !.self = p, !.func = r.args[1],
                                  !.state = r.state, !.exc = exc,
                                  !.res = IF exc = "none" THEN Ref(Len(heap) + 1)
                                          ELSE NoValue]
    /\ UNCHANGED chain

\* whether the last operation returned an instance it created
Created == last.exc = "none" /\ last.res.k = "partial"

\* the caller takes the result or the exception, keeps a reference to the
\* instance it was given, and goes on
Return ==
    /\ ~Idle
    /\ Len(heap) <= MaxInst
    /\ last' = NoOp
    /\ UNCHANGED <<heap, chain>>

\* the caller drops the instance it was given, which nothing else refers to:
\* it is reclaimed
Discard ==
    /\ ~Idle
    /\ Created
    /\ heap' = SubSeq(heap, 1, Len(heap) - 1)
    /\ last' = NoOp
    /\ UNCHANGED chain

Next ==
    \/ \E func \in Funcs, args \in ArgLists, kw \in KwSets : New(func, args, kw)
    \/ \E p \in 1..Len(heap), args \in ArgLists, kw \in KwSets : Call(p, args, kw)
    \/ \E p \in 1..Len(heap) : Reduce(p)
    \/ \E p \in 1..Len(heap), state \in StateInputs : SetState(p, state)
    \/ \E p \in 1..Len(heap) : Copy(p)
    \/ Return
    \/ Discard

Spec == Init /\ [][Next]_vars

\* ------------------------------------------- the session of the docstring
\* The docstring's session, for any three values a, b, c in place of 1, 2, 3:
\*   g = f(a, ...); h = g(b, ...); h(c)
\*   s = partial(f, a, b, c); s()
\*   i = f(..., c); i(a, b)
\*   j = f(a, ..., c); j(b)
\* run on the function f of the docstring, also when it carries an attribute
\* named func. chain.pc is the statement to run next, chain.obj the instance
\* the last statement made, chain.res the values the calls returned and
\* chain.calls the invocations of the wrapped function, each with the
\* statement that made it.
ChainVals == {1, 2, 3}

InitChain ==
    /\ heap = <<>>
    /\ last = NoOp
    /\ chain \in {[NoChain EXCEPT !.pc = "g", !.f = fn, !.a = a, !.b = b, !.c = c] :
                     fn \in {PlainFn, AttrFn}, a \in ChainVals, b \in ChainVals,
                     c \in ChainVals}

\* a statement  x = partial(f, *args)
ChainNew(pc, args, next) ==
    /\ chain.pc = pc
    /\ LET n == partial_new(heap, chain.f, args, {})
       IN IF n.exc = "none"
          THEN /\ heap' = Alloc(heap, n.inst)
               /\ chain' = [chain EXCEPT !.pc = next, !.obj = Len(heap) + 1]
          ELSE /\ heap' = heap
               /\ chain' = [chain EXCEPT !.pc = "failed", !.exc = n.exc]
    /\ UNCHANGED last

Tagged(pc, log) == [i \in 1..Len(log) |-> [pc |-> pc, callee |-> log[i].callee,
                                            args |-> log[i].args, kw |-> log[i].kw]]

\* a statement  x = obj(*args)  on the instance the statement before it made
ChainCall(pc, args, next) ==
    /\ chain.pc = pc
    /\ LET r == partial_call(heap, chain.obj, args, {}, 0)
       IN /\ heap' = r.heap
          /\ chain' = IF r.exc = "none" /\ r.res.k = "partial"
                      THEN [chain EXCEPT !.pc = next, !.obj = r.res.v,
                                         !.calls = @ \o Tagged(pc, r.log)]
                      ELSE [chain EXCEPT !.pc = next,
                                         !.res = Append(@, [exc |-> r.exc, res |-> r.res]),
                                         !.calls = @ \o Tagged(pc, r.log)]
    /\ UNCHANGED last

NextChain ==
    \/ ChainNew("g", <<chain.a, Ellipsis>>, "h")
    \/ ChainCall("h", <<chain.b, Ellipsis>>, "h(c)")
    \/ ChainCall("h(c)", <<chain.c>>, "s")
    \/ ChainNew("s", <<chain.a, chain.b, chain.c>>, "s()")
    \/ ChainCall("s()", <<>>, "i")
    \/ ChainNew("i", <<Ellipsis, chain.c>>, "i(a, b)")
    \/ ChainCall("i(a, b)", <<chain.a, chain.b>>, "j")
    \/ ChainNew("j", <<chain.a, Ellipsis, chain.c>>, "j(b)")
    \/ ChainCall("j(b)", <<chain.b>>, "done")

SpecChain == InitChain /\ [][NextChain]_vars

\* ================================================================ claims
\* What the claims read of an operation and its arguments.
CountEllipsis(args) == Cardinality({i \in 1..Len(args) : args[i] = Ellipsis})

\* the part of args before its one placeholder (all of args without one)
LeftOf(args) ==
    IF CountEllipsis(args) = 0 THEN args
    ELSE SubSeq(args, 1, (CHOOSE i \in 1..Len(args) : args[i] = Ellipsis) - 1)

\* the part of args after its one placeholder (nothing without one)
RightOf(args) ==
    IF CountEllipsis(args) = 0 THEN <<>>
    ELSE SubSeq(args, (CHOOSE i \in 1..Len(args) : args[i] = Ellipsis) + 1, Len(args))

\* bound overridden by given: a key of both takes the value of given
Overridden(bound, given) ==
    {b \in bound : ~\E g \in given : g[1] = b[1]} \cup given

\* the four fields the claims compare
Fields(inst) ==
    [target |-> inst.func, left_args |-> inst.largs, right_args |-> inst.rargs,
     bound_keywords |-> inst.keywords]

FinalCall == last.op = "call" /\ CountEllipsis(last.args) = 0

\* C1: a call p(*args, **kw) without a placeholder invokes p's target exactly
\* once, with p.left_args ++ args ++ p.right_args and with p.bound_keywords
\* overridden by kw, and returns what the target returns.
C1_FinalInvocation ==
    FinalCall =>
        LET p == heap[last.self]
            want == [depth |-> 0, callee |-> p.func,
                     args |-> p.largs.s \o last.args \o p.rargs.s,
                     kw |-> Overridden(p.keywords.m, last.kw)]
        IN /\ SelectSeq(last.log, LAMBDA e : e.depth = 0) = <<want>>
           /\ p.func.k # "partial" =>
                 /\ last.exc = f(want.args, want.kw).exc
                 /\ last.res = f(want.args, want.kw).res

\* C1 witness: a final call on an instance with left and right arguments and a
\* bound keyword that the call overrides has returned the target's value.
C1_Witness ==
    /\ FinalCall
    /\ last.exc = "none"
    /\ last.res.k = "int"
    /\ heap[last.self].largs.s # <<>>
    /\ heap[last.self].rargs.s # <<>>
    /\ \E b \in heap[last.self].keywords.m, g \in last.kw : b[1] = g[1] /\ b[2] # g[2]

\* C2: the target of an instance is never itself an instance.
C2_NeverNested ==
    \A i \in 1..Len(heap) : heap[i].func.k # "partial"

\* the instance q that a flattening operation starts from: partial(q, ...) or
\* q(...) with a placeholder among the arguments
FlattenOp ==
    /\ CountEllipsis(last.args) <= 1
    /\ \/ last.op = "new" /\ last.func.k = "partial"
       \/ last.op = "call" /\ CountEllipsis(last.args) = 1

FlattenFrom == IF last.op = "new" THEN last.func.v ELSE last.self

\* C3: constructing from an instance q, or invoking q with a placeholder,
\* gives an instance with q's target, q.left_args ++ L, R ++ q.right_args and
\* q.bound_keywords overridden by kw, where L and R are the arguments left and
\* right of the placeholder.
C3_Flattening ==
    FlattenOp =>
        LET q == heap[FlattenFrom]
        IN /\ last.exc = "none"
           /\ last.res = Ref(Len(heap))
           /\ Fields(heap[Len(heap)]) =
                 [target |-> q.func,
                  left_args |-> Tuple(q.largs.s \o LeftOf(last.args)),
                  right_args |-> Tuple(RightOf(last.args) \o q.rargs.s),
                  bound_keywords |-> Dict(Overridden(q.keywords.m, last.kw))]

\* C3 witness: an instance with arguments on both sides and a keyword has been
\* invoked with arguments on both sides of a placeholder and another value of
\* the keyword.
C3_Witness ==
    /\ FlattenOp
    /\ last.op = "call"
    /\ LeftOf(last.args) # <<>>
    /\ RightOf(last.args) # <<>>
    /\ heap[last.self].largs.s # <<>>
    /\ heap[last.self].rargs.s # <<>>
    /\ \E b \in heap[last.self].keywords.m, g \in last.kw : b[1] = g[1] /\ b[2] # g[2]

\* the value of f(a, b, c)
Value(a, b, c) == IntValue(a * 100 + b * 10 + c)

\* C4: g = f(a, ...); h = g(b, ...); h(c) invokes f once, at the last step
\* only, with (a, b, c), as partial(f, a, b, c)() does, and so do
\* f(..., c)(a, b) and f(a, ..., c)(b); all four return f(a, b, c).
C4_Chained ==
    /\ chain.pc # "failed"
    /\ \A i \in 1..Len(chain.calls) :
          /\ chain.calls[i].pc \in {"h(c)", "s()", "i(a, b)", "j(b)"}
          /\ chain.calls[i].callee = chain.f
          /\ chain.calls[i].args = <<chain.a, chain.b, chain.c>>
          /\ chain.calls[i].kw = {}
    /\ chain.pc = "done" =>
          /\ [i \in 1..Len(chain.calls) |-> chain.calls[i].pc]
                = <<"h(c)", "s()", "i(a, b)", "j(b)">>
          /\ chain.res = [i \in 1..4 |->
                             [exc |-> "none", res |-> Value(chain.a, chain.b, chain.c)]]

\* C4, for the functions that carry no attribute named func
C4_ChainedPlain == chain.f = PlainFn => C4_Chained

TwoPlaceholders ==
    last.op \in {"new", "call"} /\ CountEllipsis(last.args) >= 2

\* C5: an argument list with two or more placeholders, given to the
\* constructor or to a call, ends in a type error: no instance is made, the
\* target is not invoked and no existing instance changes.
C5_MultiplePlaceholders ==
    [][TwoPlaceholders' =>
          /\ last'.exc = "TypeError"
          /\ last'.res = NoValue
          /\ last'.log = <<>>
          /\ heap' = heap]_vars

\* C5 witness: an existing instance has been called with two placeholders.
C5_Witness ==
    /\ TwoPlaceholders
    /\ last.op = "call"
    /\ last.exc = "TypeError"

\* C6: building type(target) from the export of p and restoring the exported
\* state gives an instance with p's target, arguments, keywords and auxiliary
\* storage.
C6_RoundTrip ==
    last.op = "copy" =>
        /\ last.exc = "none"
        /\ last.res = Ref(Len(heap))
        /\ Fields(heap[Len(heap)]) = Fields(heap[last.self])
        /\ heap[Len(heap)].ns = heap[last.self].ns

\* C6, for the instances whose target carries no attribute named func
C6_RoundTripPlain ==
    (last.op = "copy" /\ last.func.k # "fa") => C6_RoundTrip

\* a state the claim calls malformed
Malformed(state) ==
    \/ state.t # "tuple"
    \/ state.n # 5
    \/ state.func.k = "nc"
    \/ state.largs.t \notin {"tuple", "tuplesub"}
    \/ state.rargs.t \notin {"tuple", "tuplesub"}
    \/ state.kwds.t \notin {"None", "dict", "dictsub", "mapping"}
    \/ state.namespace.t \notin {"None", "dict", "dictsub", "mapping"}

\* C7: __setstate__ of a malformed state ends in a type error and leaves every
\* field of the instance as it was.
C7_MalformedState ==
    [][(last'.op = "setstate" /\ Malformed(last'.state)) =>
          /\ last'.exc = "TypeError"
          /\ heap' = heap]_vars

\* C7 witness: a 5-tuple with one bad field has been refused on an instance
\* that holds arguments.
C7_Witness ==
    /\ last.op = "setstate"
    /\ last.state.t = "tuple"
    /\ last.state.n = 5
    /\ Malformed(last.state)
    /\ last.exc = "TypeError"
    /\ heap[last.self].largs.s # <<>>

\* C8: only __setstate__ changes the fields of an existing instance, and only
\* of the instance it is called on; constructing from p, and calling p with or
\* without a placeholder, leave p as it was, and an instance they return is a
\* new one.
C8_Immutable ==
    [][/\ \A i \in 1..Len(heap) :
             (i <= Len(heap') /\ heap'[i] # heap[i]) =>
                 (last'.op = "setstate" /\ last'.self = i)
       /\ (last'.op \in {"new", "call"} /\ last'.res.k = "partial") =>
             /\ last'.res.v = Len(heap) + 1
             /\ Len(heap') = Len(heap) + 1]_vars

\* C8 witness: a call with a placeholder on an existing instance that holds
\* arguments and a keyword has returned a new instance, with another value of
\* the keyword.
C8_Witness ==
    /\ last.op = "call"
    /\ Created
    /\ last.res.v = Len(heap)
    /\ last.self < Len(heap)
    /\ heap[last.self].largs.s # <<>>
    /\ \E b \in heap[last.self].keywords.m, g \in last.kw : b[1] = g[1] /\ b[2] # g[2]

\* C9: constructing from a callable that is not an instance succeeds, whatever
\* attributes the callable carries: the target is that callable, the keywords
\* are those given, and the arguments are those left and right of the
\* placeholder.
C9_NonWrapperTarget ==
    (last.op = "new" /\ last.func.k \in {"f", "fa"} /\ CountEllipsis(last.args) <= 1) =>
        /\ last.exc = "none"
        /\ last.res = Ref(Len(heap))
        /\ Fields(heap[Len(heap)]) =
              [target |-> last.func,
               left_args |-> Tuple(LeftOf(last.args)),
               right_args |-> Tuple(RightOf(last.args)),
               bound_keywords |-> Dict(last.kw)]

\* a 5-tuple with a callable target, and which types its other fields have
Shaped(state, seqs, maps) ==
    /\ state.t = "tuple"
    /\ state.n = 5
    /\ state.func.k # "nc"
    /\ state.largs.t \in seqs
    /\ state.rargs.t \in seqs
    /\ state.kwds.t \in maps \cup {"None"}
    /\ state.namespace.t \in maps \cup {"None"}

\* what the claim says the instance holds after __setstate__(state)
RestoredAs(inst, state) ==
    /\ inst.func = state.func
    /\ inst.largs = Tuple(state.largs.s)
    /\ inst.rargs = Tuple(state.rargs.s)
    /\ inst.keywords = Dict(state.kwds.m)
    /\ state.namespace.t = "None" => inst.ns = Dict({})
    /\ state.namespace.t # "None" => inst.ns = state.namespace

\* C10 as stated: a 5-tuple whose arguments are sequences of any type and whose
\* keywords and namespace are absent or mappings of any type is accepted and
\* restored.
C10_AnySequence ==
    (last.op = "setstate"
        /\ Shaped(last.state, {"tuple", "tuplesub", "list"}, {"dict", "dictsub", "mapping"})) =>
        /\ last.exc = "none"
        /\ RestoredAs(heap[last.self], last.state)

\* C10 as amended: a 5-tuple whose arguments are tuples (of tuple or a subtype)
\* and whose keywords and namespace are absent or dicts (of dict or a subtype)
\* is accepted and restored, the arguments as plain tuples and the keywords as
\* a plain dict; with a callable target, one whose arguments are another kind
\* of sequence or whose keywords or namespace are another kind of mapping ends
\* in a type error.
C10_TuplesAndDicts ==
    last.op = "setstate" =>
        /\ Shaped(last.state, {"tuple", "tuplesub"}, {"dict", "dictsub"}) =>
              /\ last.exc = "none"
              /\ RestoredAs(heap[last.self], last.state)
        /\ (/\ Shaped(last.state, {"tuple", "tuplesub", "list"},
                      {"dict", "dictsub", "mapping"})
            /\ ~Shaped(last.state, {"tuple", "tuplesub"}, {"dict", "dictsub"})) =>
              last.exc = "TypeError"

\* C10 witness: a state whose arguments are of a subtype of tuple has been
\* restored.
C10_Witness ==
    /\ last.op = "setstate"
    /\ last.exc = "none"
    /\ last.state.largs.t = "tuplesub"
    /\ Len(last.state.largs.s) > 1

====
